---- MODULE Spec2Model ----
(***************************************************************************)
(* A model of ogletest: the test runner (run_tests.go), the per-test       *)
(* failure sink (test_info.go) and the AnyOf matcher (any_of.go).          *)
(*                                                                         *)
(* Spec       the runner: RunTests over the registered suites, runTest     *)
(*            with its deferred recovery function, and the user's hooks    *)
(*            and test bodies as nondeterministic callers of the reporter. *)
(* SpecAnyOf  the matcher: AnyOf(vals...), Matches(c) and Description().   *)
(*                                                                         *)
(* Strings that the code builds (fmt.Sprintf, strings.Join, path.Base) are *)
(* sequences of pieces, so that building them is a computation.            *)
(***************************************************************************)
EXTENDS Integers, Sequences, FiniteSets, TLC

VARIABLES
    testSuites,     \* the registered suites (read-only during the run)
    testFilter,     \* the value of the -ogletest.run flag
    pc,             \* where RunTests is
    suiteIdx,       \* index of the suite of the outer loop of RunTests
    methodIdx,      \* i of the method loop of RunTests
    CurrentTest,    \* the process-wide current-test slot: 0 is nil, else the id of a TestInfo
    testInfos,      \* the live TestInfo objects, by id
    nextObj,        \* the next object id an allocation returns
    suiteInstance,  \* the receiver runTest created (0: none)
    panicking,      \* the panic value in flight in runTest ("none": no panic)
    panicSite,      \* source location of the frame that called panic
    failures,       \* the value runTest returned to RunTests
    tFailed,        \* testing.T: whether Fail has been called
    failCalls,      \* history: calls of t.Fail for the test just run
    calls,          \* history: the methods invoked during the current suite, in order
    hookRuns,       \* history: per suite, how often each suite-level hook was invoked
    appended,       \* history: the records the reporter appended during the current test
    fatalCall,      \* history: the last ReportFatalError call of the current test
    lastPanic,      \* history: the panic that ended the current test's methods, and where
    anyRecord,      \* history: whether some runTest call has returned a non-empty sequence
    tested,         \* history: per suite, the methods runTest was called with, in order
    \* ---- the matcher
    mpc,            \* where the matcher scenario is
    vals,           \* the arguments of AnyOf
    cand,           \* the candidate c of Matches
    wrapped,        \* anyOfMatcher.wrapped
    mres,           \* the result of Matches: [res, err, evaluated]
    mdesc,          \* the result of Description()
    \* ---- concurrent callers of one reporter
    cpc,            \* per context: where it is in ReportError ("idle" between calls)
    mutex,          \* TestInfo.mutex: 0 is unlocked, else the context that holds it
    local,          \* per context: the slice value its append has read
    completed,      \* per context: the number of ReportError calls it has completed
    initialRecords  \* the failure records of the shared test state before any call

runVars == <<testSuites, testFilter, pc, suiteIdx, methodIdx, CurrentTest, testInfos,
             nextObj, suiteInstance, panicking, panicSite, failures, tFailed,
             failCalls, calls, hookRuns, appended, fatalCall, lastPanic,
             anyRecord, tested>>
matchVars == <<mpc, vals, cand, wrapped, mres, mdesc>>
concVars == <<cpc, mutex, local, completed, initialRecords>>
vars == <<runVars, matchVars, concVars>>

----------------------------------------------------------------------------
(* Bounds *)

MaxSuites == 2      \* registered suites
MaxReports == 2     \* records one test's reporter calls append
MaxVals == 3        \* arguments of one AnyOf call
MaxContexts == 2    \* goroutines that report on one test state
MaxCalls == 2       \* ReportError calls one goroutine makes

----------------------------------------------------------------------------
(* The inputs of the runner *)

\* The methods a suite type can have, in the order reflect enumerates them
\* (Type.Method(i) is sorted lexicographically).
AllMethodNames ==
    <<"Alpha", "SetUp", "SetUpTestSuite", "TearDown", "TearDownTestSuite", "TestB">>

\* The suite types of the model, each the set of the methods it defines.
SuiteTypes ==
    { {},
      {"Alpha", "TestB"},
      {"SetUp", "TearDown", "TestB"},
      {"SetUpTestSuite", "TearDownTestSuite", "Alpha"},
      {"Alpha", "SetUp", "SetUpTestSuite", "TearDown", "TearDownTestSuite", "TestB"} }

\* Values of the -ogletest.run flag: the default, and a pattern that matches
\* the test method TestB only (no method at all of a suite without TestB).
FilterPatterns == {"", "TestB"}

\* What user code passes to panic(); "nil" is panic(nil).
UserPanicValues == {"boom", "nil"}

\* Arguments of the reporter's calls.
ReportFiles == {<<"suite_test.go">>}
ReportLines == {10, 20}
ReportErrs == {[msg |-> <<"expected 1">>]}

\* Source locations of user frames that call panic (full paths).
PanicSites == {[file |-> <<"home", "pkg", "suite_test.go">>, line |-> 30]}

NoSite == [file |-> <<>>, line |-> 0]

----------------------------------------------------------------------------
(* Helpers of the runner *)

\* typ.NumMethod() and typ.Method(i): the methods of a suite type in
\* enumeration order (indices here are 1-based, the code's are 0-based).
MethodsOf(typ) == SelectSeq(AllMethodNames, LAMBDA n : n \in typ)

\* v.MethodByName(name).Kind() /= reflect.Invalid
MethodExists(typ, name) == name \in typ

\* isSpecialMethod with a slip: TearDown is missing from the list.
isSpecialMethod_NoTearDown(name) ==
    \/ name = "SetUpTestSuite"
    \/ name = "TearDownTestSuite"
    \/ name = "SetUp"

isSpecialMethod(name) ==
    \/ name = "SetUpTestSuite"
    \/ name = "TearDownTestSuite"
    \/ name = "SetUp"
    \/ name = "TearDown"

\* newTestInfo with a slip: the record list is not a new empty one, it still
\* holds what the runner last collected.
newTestInfo_Stale == [failureRecords |-> failures]

\* newTestInfo: a valid but empty test state.
newTestInfo == [failureRecords |-> <<>>]

\* err.Error()
Error(err) == err.msg

\* path.Base: the last element of a path; "." for the empty path.
Base(path) == IF path = <<>> THEN <<".">> ELSE <<path[Len(path)]>>

\* What recover() returns in the deferred function. For panic(nil) that is
\* nil with toolchains before Go 1.21 (or GODEBUG=panicnil=1) and a
\* *runtime.PanicNilError after; with no panic in flight it is nil.
Recover(p) ==
    CASE p = "none" -> {"nil"}
      [] p = "nil"  -> {"nil", "PanicNilError"}
      [] OTHER      -> {p}

\* The %v verb of fmt for the values a panic carries here.
FormatV(r) ==
    CASE r = "PanicNilError"   -> <<"panic called with nil argument">>
      [] r = "assertThatError" -> <<"&{}">>
      [] OTHER                 -> <<r>>

\* fmt.Sprintf("panic: %v", r)
SprintfPanic(r) == <<"panic: ">> \o FormatV(r)

\* The record the reporter builds.
ReportRecord(fileName, lineNumber, err) ==
    [FileName |-> fileName, LineNumber |-> lineNumber,
     GeneratedError |-> Error(err), UserError |-> <<>>]

\* ReportError with a slip: the record is built and never stored.
ReportError_Drop(infos, info, fileName, lineNumber, err) == infos

\* testInfoErrorReporter.ReportError on the reporter of test state `info`:
\* lock, append one record, unlock. The value is the new object store.
ReportError(infos, info, fileName, lineNumber, err) ==
    [infos EXCEPT ![info].failureRecords =
        Append(@, ReportRecord(fileName, lineNumber, err))]

\* The synthesized record of runTest's deferred function; ok, site are what
\* runtime.Caller(2) returned.
PanicRecord(r, ok, site) ==
    [FileName |-> IF ok THEN Base(site.file) ELSE <<>>,
     LineNumber |-> IF ok THEN site.line ELSE 0,
     GeneratedError |-> SprintfPanic(r),
     UserError |-> <<>>]

\* The value the deferred function of runTest leaves in `failures`: the
\* records of the current test, plus one for the panic if recover() gave r /= nil.
DeferredFailures(records, r, ok, site) ==
    IF r # "nil" THEN Append(records, PanicRecord(r, ok, site)) ELSE records

\* The deferred function with a slip: the slot is left as it was.
DeferredCurrentTest_NotReset(cur) == cur

\* The slot after the deferred function: internal.CurrentTest = nil.
DeferredCurrentTest(cur) == 0

\* runTest's three calls of runMethodIfExists(suiteInstance, ...): the next
\* position after `stage` returned normally ("start": nothing has run yet).
NextStage(typ, stage) ==
    CASE stage = "start" -> IF MethodExists(typ, "SetUp") THEN "SetUp" ELSE "Body"
      [] stage = "SetUp" -> "Body"
      [] stage = "Body"  -> IF MethodExists(typ, "TearDown") THEN "TearDown" ELSE "deferred"
      [] OTHER           -> "deferred"

UserPcs == {"SetUp", "Body", "TearDown"}

CurSuite == testSuites[suiteIdx]
CurMethod == MethodsOf(CurSuite)[methodIdx]

\* The name of the method a position of runTest executes.
StageMethod(stage) == IF stage = "Body" THEN CurMethod ELSE stage

Call(name, recv) == [name |-> name, recv |-> recv]

NoPanic == [value |-> "none", at |-> "none"]

----------------------------------------------------------------------------
(* The runner: RunTests *)

TestLocals ==
    /\ failures' = <<>>
    /\ failCalls' = 0
    /\ appended' = <<>>
    /\ fatalCall' = <<>>
    /\ lastPanic' = NoPanic

\* The outer loop has a next suite: print its name and run its
\* SetUpTestSuite method, if any.
RunTestsNextSuite ==
    /\ pc = "suite"
    /\ suiteIdx <= Len(testSuites)
    /\ IF MethodExists(CurSuite, "SetUpTestSuite")
       THEN /\ pc' = "SetUpTestSuite"
            /\ calls' = <<Call("SetUpTestSuite", suiteIdx)>>
            /\ hookRuns' = [hookRuns EXCEPT ![suiteIdx].setUp = @ + 1]
            /\ UNCHANGED methodIdx
       ELSE /\ pc' = "methods"
            /\ calls' = <<>>
            /\ methodIdx' = 1
            /\ UNCHANGED hookRuns
    /\ UNCHANGED <<testSuites, testFilter, suiteIdx, CurrentTest, testInfos, nextObj,
                   suiteInstance, panicking, panicSite, failures, tFailed, failCalls,
                   appended, fatalCall, lastPanic>>
    /\ UNCHANGED matchVars
    /\ UNCHANGED <<anyRecord, tested>>
    /\ UNCHANGED concVars

\* The outer loop is over: RunTests returns.
RunTestsReturn ==
    /\ pc = "suite"
    /\ suiteIdx > Len(testSuites)
    /\ pc' = "done"
    /\ UNCHANGED <<testSuites, testFilter, suiteIdx, methodIdx, CurrentTest, testInfos,
                   nextObj, suiteInstance, panicking, panicSite, failures, tFailed,
                   failCalls, calls, hookRuns, appended, fatalCall, lastPanic>>
    /\ UNCHANGED matchVars
    /\ UNCHANGED <<anyRecord, tested>>
    /\ UNCHANGED concVars

\* A suite-level hook returns: after SetUpTestSuite the method loop starts,
\* after TearDownTestSuite the outer loop goes on.
SuiteHookReturn ==
    /\ pc \in {"SetUpTestSuite", "TearDownTestSuite"}
    /\ IF pc = "SetUpTestSuite"
       THEN /\ pc' = "methods"
            /\ methodIdx' = 1
            /\ UNCHANGED suiteIdx
       ELSE /\ pc' = "suite"
            /\ suiteIdx' = suiteIdx + 1
            /\ UNCHANGED methodIdx
    /\ UNCHANGED <<testSuites, testFilter, CurrentTest, testInfos, nextObj,
                   suiteInstance, panicking, panicSite, failures, tFailed, failCalls,
                   calls, hookRuns, appended, fatalCall, lastPanic>>
    /\ UNCHANGED matchVars
    /\ UNCHANGED <<anyRecord, tested>>
    /\ UNCHANGED concVars

\* A suite-level hook's panic with a slip: RunTests recovers it and goes on
\* as if the hook had returned.
SuiteHookPanic_Recovered ==
    /\ pc \in {"SetUpTestSuite", "TearDownTestSuite"}
    /\ \E v \in UserPanicValues : lastPanic' = [value |-> v, at |-> pc]
    /\ IF pc = "SetUpTestSuite"
       THEN /\ pc' = "methods"
            /\ methodIdx' = 1
            /\ UNCHANGED suiteIdx
       ELSE /\ pc' = "suite"
            /\ suiteIdx' = suiteIdx + 1
            /\ UNCHANGED methodIdx
    /\ UNCHANGED <<testSuites, testFilter, CurrentTest, testInfos, nextObj,
                   suiteInstance, panicking, panicSite, failures, tFailed, failCalls,
                   calls, hookRuns, appended, fatalCall, anyRecord, tested>>
    /\ UNCHANGED matchVars
    /\ UNCHANGED concVars

\* A suite-level hook panics: nothing in RunTests recovers, the panic leaves it.
SuiteHookPanic ==
    /\ pc \in {"SetUpTestSuite", "TearDownTestSuite"}
    /\ \E v \in UserPanicValues, site \in PanicSites :
          /\ panicking' = v
          /\ panicSite' = site
          /\ lastPanic' = [value |-> v, at |-> pc]
    /\ pc' = "panicked"
    /\ UNCHANGED <<testSuites, testFilter, suiteIdx, methodIdx, CurrentTest, testInfos,
                   nextObj, suiteInstance, failures, tFailed, failCalls, calls,
                   hookRuns, appended, fatalCall>>
    /\ UNCHANGED matchVars
    /\ UNCHANGED <<anyRecord, tested>>
    /\ UNCHANGED concVars

\* MethodLoopExit with a slip: the suite's teardown is skipped once a test has failed.
MethodLoopExit_SkipAfterFailure ==
    /\ pc = "methods"
    /\ methodIdx > Len(MethodsOf(CurSuite))
    /\ IF MethodExists(CurSuite, "TearDownTestSuite") /\ ~tFailed
       THEN /\ pc' = "TearDownTestSuite"
            /\ calls' = Append(calls, Call("TearDownTestSuite", suiteIdx))
            /\ hookRuns' = [hookRuns EXCEPT ![suiteIdx].tearDown = @ + 1]
            /\ UNCHANGED suiteIdx
       ELSE /\ pc' = "suite"
            /\ suiteIdx' = suiteIdx + 1
            /\ UNCHANGED <<calls, hookRuns>>
    /\ TestLocals
    /\ UNCHANGED <<testSuites, testFilter, methodIdx, CurrentTest, testInfos, nextObj,
                   suiteInstance, panicking, panicSite, tFailed>>
    /\ UNCHANGED matchVars
    /\ UNCHANGED <<anyRecord, tested>>
    /\ UNCHANGED concVars

\* The method loop is over: run the TearDownTestSuite method, if any.
MethodLoopExit ==
    /\ pc = "methods"
    /\ methodIdx > Len(MethodsOf(CurSuite))
    /\ IF MethodExists(CurSuite, "TearDownTestSuite")
       THEN /\ pc' = "TearDownTestSuite"
            /\ calls' = Append(calls, Call("TearDownTestSuite", suiteIdx))
            /\ hookRuns' = [hookRuns EXCEPT ![suiteIdx].tearDown = @ + 1]
            /\ UNCHANGED suiteIdx
       ELSE /\ pc' = "suite"
            /\ suiteIdx' = suiteIdx + 1
            /\ UNCHANGED <<calls, hookRuns>>
    /\ TestLocals
    /\ UNCHANGED <<testSuites, testFilter, methodIdx, CurrentTest, testInfos, nextObj,
                   suiteInstance, panicking, panicSite, tFailed>>
    /\ UNCHANGED matchVars
    /\ UNCHANGED <<anyRecord, tested>>
    /\ UNCHANGED concVars

\* isSpecialMethod(method.Name): continue.
MethodLoopSkip ==
    /\ pc = "methods"
    /\ methodIdx <= Len(MethodsOf(CurSuite))
    /\ isSpecialMethod(CurMethod)
    /\ methodIdx' = methodIdx + 1
    /\ TestLocals
    /\ UNCHANGED <<testSuites, testFilter, pc, suiteIdx, CurrentTest, testInfos, nextObj,
                   suiteInstance, panicking, panicSite, tFailed, calls, hookRuns>>
    /\ UNCHANGED matchVars
    /\ UNCHANGED <<anyRecord, tested>>
    /\ UNCHANGED concVars

----------------------------------------------------------------------------
(* The runner: runTest *)

\* runTest with a slip: the methods of the test run on the registered suite
\* value instead of a new instance.
RunTestBegin_SharedReceiver ==
    /\ pc = "methods"
    /\ methodIdx <= Len(MethodsOf(CurSuite))
    /\ ~isSpecialMethod(CurMethod)
    /\ CurrentTest' = nextObj
    /\ testInfos' = (nextObj :> newTestInfo)
    /\ suiteInstance' = suiteIdx
    /\ nextObj' = nextObj + 2
    /\ pc' = NextStage(CurSuite, "start")
    /\ calls' = Append(calls, Call(StageMethod(pc'), suiteInstance'))
    /\ tested' = [tested EXCEPT ![suiteIdx] = Append(@, CurMethod)]
    /\ TestLocals
    /\ UNCHANGED <<testSuites, testFilter, suiteIdx, methodIdx, panicking, panicSite,
                   tFailed, hookRuns>>
    /\ UNCHANGED matchVars
    /\ UNCHANGED <<anyRecord>>
    /\ UNCHANGED concVars

\* The method loop calls runTest: a clean test state becomes current, the
\* deferred function is registered, a receiver is created and the first of
\* SetUp and the test method is entered.
RunTestBegin ==
    /\ pc = "methods"
    /\ methodIdx <= Len(MethodsOf(CurSuite))
    /\ ~isSpecialMethod(CurMethod)
    /\ CurrentTest' = nextObj
    /\ testInfos' = (nextObj :> newTestInfo)
    /\ suiteInstance' = nextObj + 1
    /\ nextObj' = nextObj + 2
    /\ pc' = NextStage(CurSuite, "start")
    /\ calls' = Append(calls, Call(StageMethod(pc'), suiteInstance'))
    /\ tested' = [tested EXCEPT ![suiteIdx] = Append(@, CurMethod)]
    /\ TestLocals
    /\ UNCHANGED <<testSuites, testFilter, suiteIdx, methodIdx, panicking, panicSite,
                   tFailed, hookRuns>>
    /\ UNCHANGED matchVars
    /\ UNCHANGED <<anyRecord>>
    /\ UNCHANGED concVars

\* The user's SetUp, test method or TearDown reports a non-fatal failure
\* through the reporter of the current test.
UserReportError ==
    /\ pc \in UserPcs
    /\ Len(testInfos[CurrentTest].failureRecords) < MaxReports
    /\ \E f \in ReportFiles, l \in ReportLines, e \in ReportErrs :
          /\ testInfos' = ReportError(testInfos, CurrentTest, f, l, e)
          /\ appended' = Append(appended, [fileName |-> f, lineNumber |-> l, err |-> e])
    /\ UNCHANGED <<testSuites, testFilter, pc, suiteIdx, methodIdx, CurrentTest, nextObj,
                   suiteInstance, panicking, panicSite, failures, tFailed, failCalls,
                   calls, hookRuns, fatalCall, lastPanic>>
    /\ UNCHANGED matchVars
    /\ UNCHANGED <<anyRecord, tested>>
    /\ UNCHANGED concVars

\* The location of panic(&assertThatError{}) in ReportFatalError.
FatalPanicSite == [file |-> <<"ogletest", "test_info.go">>, line |-> 80]

\* ReportFatalError with a slip: the record is appended and the call returns.
ReportFatalError_Returns ==
    /\ pc \in UserPcs
    /\ Len(testInfos[CurrentTest].failureRecords) < MaxReports
    /\ \E f \in ReportFiles, l \in ReportLines, e \in ReportErrs :
          /\ testInfos' = ReportError(testInfos, CurrentTest, f, l, e)
          /\ appended' = Append(appended, [fileName |-> f, lineNumber |-> l, err |-> e])
          /\ fatalCall' = <<[fileName |-> f, lineNumber |-> l, err |-> e,
                             before |-> testInfos[CurrentTest].failureRecords]>>
    /\ UNCHANGED <<testSuites, testFilter, pc, suiteIdx, methodIdx, CurrentTest, nextObj,
                   suiteInstance, panicking, panicSite, failures, tFailed, failCalls,
                   calls, hookRuns, lastPanic>>
    /\ UNCHANGED matchVars
    /\ UNCHANGED <<anyRecord, tested>>
    /\ UNCHANGED concVars

\* testInfoErrorReporter.ReportFatalError, called by the user's SetUp, test
\* method or TearDown: ReportError, then panic(&assertThatError{}), which
\* unwinds to the deferred function of runTest.
ReportFatalError ==
    /\ pc \in UserPcs
    /\ Len(testInfos[CurrentTest].failureRecords) < MaxReports
    /\ \E f \in ReportFiles, l \in ReportLines, e \in ReportErrs :
          /\ testInfos' = ReportError(testInfos, CurrentTest, f, l, e)
          /\ appended' = Append(appended, [fileName |-> f, lineNumber |-> l, err |-> e])
          /\ fatalCall' = <<[fileName |-> f, lineNumber |-> l, err |-> e,
                             before |-> testInfos[CurrentTest].failureRecords]>>
    /\ panicking' = "assertThatError"
    /\ panicSite' = FatalPanicSite
    /\ lastPanic' = [value |-> "assertThatError", at |-> pc]
    /\ pc' = "deferred"
    /\ UNCHANGED <<testSuites, testFilter, suiteIdx, methodIdx, CurrentTest, nextObj,
                   suiteInstance, failures, tFailed, failCalls, calls, hookRuns>>
    /\ UNCHANGED matchVars
    /\ UNCHANGED <<anyRecord, tested>>
    /\ UNCHANGED concVars

\* A panic of user code with a slip: after a panic of SetUp, runTest still
\* goes on to the test method.
UserPanic_SetUpContinues ==
    /\ pc \in UserPcs
    /\ \E v \in UserPanicValues, site \in PanicSites :
          /\ panicking' = IF pc = "SetUp" THEN panicking ELSE v
          /\ panicSite' = IF pc = "SetUp" THEN panicSite ELSE site
          /\ lastPanic' = [value |-> v, at |-> pc]
    /\ pc' = IF pc = "SetUp" THEN "Body" ELSE "deferred"
    /\ calls' = IF pc = "SetUp"
                THEN Append(calls, Call(StageMethod("Body"), suiteInstance))
                ELSE calls
    /\ UNCHANGED <<testSuites, testFilter, suiteIdx, methodIdx, CurrentTest, testInfos,
                   nextObj, suiteInstance, failures, tFailed, failCalls,
                   hookRuns, appended, fatalCall>>
    /\ UNCHANGED matchVars
    /\ UNCHANGED <<anyRecord, tested>>
    /\ UNCHANGED concVars

\* The user's SetUp, test method or TearDown panics: the rest of runTest's
\* body is skipped and its deferred function runs.
UserPanic ==
    /\ pc \in UserPcs
    /\ \E v \in UserPanicValues, site \in PanicSites :
          /\ panicking' = v
          /\ panicSite' = site
          /\ lastPanic' = [value |-> v, at |-> pc]
    /\ pc' = "deferred"
    /\ UNCHANGED <<testSuites, testFilter, suiteIdx, methodIdx, CurrentTest, testInfos,
                   nextObj, suiteInstance, failures, tFailed, failCalls, calls,
                   hookRuns, appended, fatalCall>>
    /\ UNCHANGED matchVars
    /\ UNCHANGED <<anyRecord, tested>>
    /\ UNCHANGED concVars

\* The user's SetUp, test method or TearDown returns: runTest goes on to its
\* next runMethodIfExists call, or returns (running its deferred function).
UserReturn ==
    /\ pc \in UserPcs
    /\ pc' = NextStage(CurSuite, pc)
    /\ calls' = IF pc' \in UserPcs
                THEN Append(calls, Call(StageMethod(pc'), suiteInstance))
                ELSE calls
    /\ UNCHANGED <<testSuites, testFilter, suiteIdx, methodIdx, CurrentTest, testInfos,
                   nextObj, suiteInstance, panicking, panicSite, failures, tFailed,
                   failCalls, hookRuns, appended, fatalCall, lastPanic>>
    /\ UNCHANGED matchVars
    /\ UNCHANGED <<anyRecord, tested>>
    /\ UNCHANGED concVars

\* The deferred function with a slip: it does not recover, so a panic of the
\* test goes on through runTest and RunTests.
Deferred_NoRecover ==
    /\ pc = "deferred"
    /\ failures' = testInfos[CurrentTest].failureRecords
    /\ CurrentTest' = 0
    /\ testInfos' = <<>>
    /\ suiteInstance' = 0
    /\ anyRecord' = (anyRecord \/ failures' # <<>>)
    /\ pc' = IF panicking = "none" THEN "returned" ELSE "panicked"
    /\ UNCHANGED <<testSuites, testFilter, suiteIdx, methodIdx, nextObj, tFailed,
                   failCalls, calls, hookRuns, appended, fatalCall, lastPanic,
                   panicking, panicSite, tested>>
    /\ UNCHANGED matchVars
    /\ UNCHANGED concVars

\* The deferred function of runTest, then runTest's return: the failures are
\* those of the current test, plus one for a recovered panic; the slot is reset.
Deferred ==
    /\ pc = "deferred"
    /\ \E r \in Recover(panicking), ok \in BOOLEAN :
          failures' = DeferredFailures(testInfos[CurrentTest].failureRecords,
                                       r, ok, panicSite)
    /\ panicking' = "none"
    /\ panicSite' = NoSite
    /\ CurrentTest' = DeferredCurrentTest(CurrentTest)
    /\ testInfos' = IF CurrentTest' = 0 THEN <<>> ELSE testInfos
    /\ suiteInstance' = 0
    /\ anyRecord' = (anyRecord \/ failures' # <<>>)
    /\ pc' = "returned"
    /\ UNCHANGED <<testSuites, testFilter, suiteIdx, methodIdx, nextObj, tFailed,
                   failCalls, calls, hookRuns, appended, fatalCall, lastPanic>>
    /\ UNCHANGED matchVars
    /\ UNCHANGED <<tested>>
    /\ UNCHANGED concVars

\* The reporting loop with a slip: t.Fail() is called once for a failed test,
\* not once per record.
ReportFailures_OncePerTest ==
    /\ pc = "returned"
    /\ tFailed' = (tFailed \/ Len(failures) > 0)
    /\ failCalls' = IF Len(failures) > 0 THEN 1 ELSE 0
    /\ methodIdx' = methodIdx + 1
    /\ pc' = "methods"
    /\ UNCHANGED <<testSuites, testFilter, suiteIdx, CurrentTest, testInfos, nextObj,
                   suiteInstance, panicking, panicSite, failures, calls, hookRuns,
                   appended, fatalCall, lastPanic, anyRecord, tested>>
    /\ UNCHANGED matchVars
    /\ UNCHANGED concVars

\* RunTests after runTest returned: t.Fail() and a printed line per record,
\* then the next method.
ReportFailures ==
    /\ pc = "returned"
    /\ tFailed' = (tFailed \/ Len(failures) > 0)
    /\ failCalls' = Len(failures)
    /\ methodIdx' = methodIdx + 1
    /\ pc' = "methods"
    /\ UNCHANGED <<testSuites, testFilter, suiteIdx, CurrentTest, testInfos, nextObj,
                   suiteInstance, panicking, panicSite, failures, calls, hookRuns,
                   appended, fatalCall, lastPanic>>
    /\ UNCHANGED matchVars
    /\ UNCHANGED <<anyRecord, tested>>
    /\ UNCHANGED concVars

----------------------------------------------------------------------------
(* The runner's specification *)

ConcIdle ==
    /\ cpc = <<>>
    /\ mutex = 0
    /\ local = <<>>
    /\ completed = <<>>
    /\ initialRecords = <<>>

MatcherIdle ==
    /\ mpc = "off"
    /\ vals = <<>>
    /\ cand = 0
    /\ wrapped = <<>>
    /\ mres = <<>>
    /\ mdesc = <<>>

Init ==
    /\ testSuites \in UNION {[1..n -> SuiteTypes] : n \in 0..MaxSuites}
    /\ testFilter \in FilterPatterns
    /\ pc = "suite"
    /\ suiteIdx = 1
    /\ methodIdx = 1
    /\ CurrentTest = 0
    /\ testInfos = <<>>
    /\ nextObj = Len(testSuites) + 1
    /\ suiteInstance = 0
    /\ panicking = "none"
    /\ panicSite = NoSite
    /\ failures = <<>>
    /\ tFailed = FALSE
    /\ failCalls = 0
    /\ calls = <<>>
    /\ hookRuns = [s \in 1..Len(testSuites) |-> [setUp |-> 0, tearDown |-> 0]]
    /\ appended = <<>>
    /\ fatalCall = <<>>
    /\ lastPanic = NoPanic
    /\ anyRecord = FALSE
    /\ tested = [s \in 1..Len(testSuites) |-> <<>>]
    /\ MatcherIdle
    /\ ConcIdle

Next ==
    \/ RunTestsNextSuite
    \/ RunTestsReturn
    \/ SuiteHookReturn
    \/ SuiteHookPanic
    \/ MethodLoopExit
    \/ MethodLoopSkip
    \/ RunTestBegin
    \/ UserReportError
    \/ ReportFatalError
    \/ UserPanic
    \/ UserReturn
    \/ Deferred
    \/ ReportFailures

Spec == Init /\ [][Next]_vars

----------------------------------------------------------------------------
(* The matcher: its inputs *)

MATCH_FALSE == "MATCH_FALSE"
MATCH_TRUE == "MATCH_TRUE"
MATCH_UNDEFINED == "MATCH_UNDEFINED"

\* The user's matchers: T always matches (and leaves a message nobody should
\* read), F never does, U is undefined for every candidate with message "m",
\* V is undefined with message "n" for the candidate 1 and matches 2 only.
UserMatchers == {"T", "F", "U", "V"}

\* The arguments of AnyOf: matchers, raw values, the untyped nil.
Values ==
    [kind : {"matcher"}, id : UserMatchers, v : {0}]
        \cup [kind : {"raw"}, id : {"-"}, v : {1, 2}]
        \cup [kind : {"nil"}, id : {"-"}, v : {0}]

Candidates == {1, 2, 3}

\* matcher.Matches(c) of a user's matcher.
UserMatches(id, c) ==
    CASE id = "T" -> [res |-> MATCH_TRUE, err |-> <<"t">>]
      [] id = "F" -> [res |-> MATCH_FALSE, err |-> <<>>]
      [] id = "U" -> [res |-> MATCH_UNDEFINED, err |-> <<"m">>]
      [] OTHER    -> IF c = 1 THEN [res |-> MATCH_UNDEFINED, err |-> <<"n">>]
                     ELSE IF c = 2 THEN [res |-> MATCH_TRUE, err |-> <<>>]
                     ELSE [res |-> MATCH_FALSE, err |-> <<>>]

\* matcher.Description() of a user's matcher, a string as its characters.
UserDescription(id) ==
    CASE id = "T" -> <<"a", "n", "y">>
      [] id = "F" -> <<>>
      [] id = "U" -> <<"u">>
      [] OTHER    -> <<"v", ",", " ", "w">>

\* Equals(v): the equality matcher of a raw value.
Equals(val) == [kind |-> "equals", id |-> "-", v |-> val.v]

\* Equals(v).Matches(c): TRUE iff c equals v, else FALSE; never UNDEFINED.
EqualsMatches(m, c) ==
    IF c = m.v THEN [res |-> MATCH_TRUE, err |-> <<>>]
    ELSE [res |-> MATCH_FALSE, err |-> <<>>]

\* Equals(v).Description(): the value printed.
EqualsDescription(m) == IF m.v = 1 THEN <<"1">> ELSE <<"2">>

\* matcher.Matches(c) and matcher.Description() of a wrapped matcher
\* (dynamic dispatch on the Matcher interface).
SubMatches(m, c) ==
    IF m.kind = "equals" THEN EqualsMatches(m, c) ELSE UserMatches(m.id, c)

SubDescription(m) ==
    IF m.kind = "equals" THEN EqualsDescription(m) ELSE UserDescription(m.id)

----------------------------------------------------------------------------
(* The matcher: AnyOf, Description, Matches *)

\* reflect.TypeOf(v).Implements(matcherType); reflect.TypeOf(nil) is the nil
\* Type, on which the method call panics.
ImplementsMatcher(val) == val.kind = "matcher"

\* AnyOf(vals...): a matcher for each value, or the value itself if it is
\* already a matcher. The loop panics at the first untyped nil.
AnyOf(vs) ==
    IF \E i \in 1..Len(vs) : vs[i].kind = "nil"
    THEN [panicked |-> TRUE, wrapped |-> <<>>]
    ELSE [panicked |-> FALSE,
          wrapped |-> [i \in 1..Len(vs) |->
                         IF ImplementsMatcher(vs[i]) THEN vs[i] ELSE Equals(vs[i])]]

\* strings.Join with a slip: the separator follows every element, the last too.
RECURSIVE Join_TrailingSep(_, _)
Join_TrailingSep(a, sep) ==
    IF Len(a) = 0 THEN <<>>
    ELSE a[1] \o sep \o Join_TrailingSep(Tail(a), sep)

\* strings.Join(a, sep)
RECURSIVE Join(_, _)
Join(a, sep) ==
    IF Len(a) = 0 THEN <<>>
    ELSE IF Len(a) = 1 THEN a[1]
    ELSE a[1] \o sep \o Join(Tail(a), sep)

\* anyOfMatcher.Description: fmt.Sprintf("or(%s)", strings.Join(wrappedDescs, ", "))
Description(w) ==
    <<"o", "r", "(">>
        \o Join([i \in 1..Len(w) |-> SubDescription(w[i])], <<",", " ">>)
        \o <<")">>

\* anyOfMatcher.Matches from the i-th wrapped matcher on; `evaluated` is the
\* list of the indices whose Matches has been called so far.
RECURSIVE MatchesFrom(_, _, _, _)
MatchesFrom(w, c, i, evaluated) ==
    IF i > Len(w)
    THEN [res |-> MATCH_FALSE, err |-> <<>>, evaluated |-> evaluated]
    ELSE LET sub == SubMatches(w[i], c)
             ev == Append(evaluated, i)
         IN  IF sub.res = MATCH_TRUE
             THEN [res |-> MATCH_TRUE, err |-> <<>>, evaluated |-> ev]
             ELSE IF sub.res = MATCH_UNDEFINED
             THEN [res |-> MATCH_UNDEFINED, err |-> sub.err, evaluated |-> ev]
             ELSE MatchesFrom(w, c, i + 1, ev)

\* Matches with a slip: an undefined result is noted and the loop goes on, so
\* that a later match wins over an earlier undefined result.
RECURSIVE MatchesNoting(_, _, _, _, _)
MatchesNoting(w, c, i, evaluated, noted) ==
    IF i > Len(w)
    THEN [res |-> noted.res, err |-> noted.err, evaluated |-> evaluated]
    ELSE LET sub == SubMatches(w[i], c)
             ev == Append(evaluated, i)
         IN  IF sub.res = MATCH_TRUE
             THEN [res |-> MATCH_TRUE, err |-> <<>>, evaluated |-> ev]
             ELSE IF sub.res = MATCH_UNDEFINED /\ noted.res = MATCH_FALSE
             THEN MatchesNoting(w, c, i + 1, ev, [res |-> MATCH_UNDEFINED, err |-> sub.err])
             ELSE MatchesNoting(w, c, i + 1, ev, noted)

Matches_NoteUndefined(w, c) ==
    MatchesNoting(w, c, 1, <<>>, [res |-> MATCH_FALSE, err |-> <<>>])

\* anyOfMatcher.Matches(c)
Matches(w, c) == MatchesFrom(w, c, 1, <<>>)

\* A caller constructs the matcher.
CallAnyOf ==
    /\ mpc = "new"
    /\ LET made == AnyOf(vals)
       IN  /\ mpc' = IF made.panicked THEN "panicked" ELSE "built"
           /\ wrapped' = made.wrapped
    /\ UNCHANGED <<vals, cand, mres, mdesc>>
    /\ UNCHANGED runVars
    /\ UNCHANGED concVars

\* A caller evaluates a candidate.
CallMatches ==
    /\ mpc = "built"
    /\ \E c \in Candidates :
          /\ cand' = c
          /\ mres' = <<Matches(wrapped, c)>>
    /\ UNCHANGED <<mpc, vals, wrapped, mdesc>>
    /\ UNCHANGED runVars
    /\ UNCHANGED concVars

\* A caller asks for the description.
CallDescription ==
    /\ mpc = "built"
    /\ mdesc' = <<Description(wrapped)>>
    /\ UNCHANGED <<mpc, vals, cand, wrapped, mres>>
    /\ UNCHANGED runVars
    /\ UNCHANGED concVars

RunnerIdle ==
    /\ testSuites = <<>>
    /\ testFilter = ""
    /\ pc = "off"
    /\ suiteIdx = 1
    /\ methodIdx = 1
    /\ CurrentTest = 0
    /\ testInfos = <<>>
    /\ nextObj = 1
    /\ suiteInstance = 0
    /\ panicking = "none"
    /\ panicSite = NoSite
    /\ failures = <<>>
    /\ tFailed = FALSE
    /\ failCalls = 0
    /\ calls = <<>>
    /\ hookRuns = <<>>
    /\ appended = <<>>
    /\ fatalCall = <<>>
    /\ lastPanic = NoPanic
    /\ anyRecord = FALSE
    /\ tested = <<>>

InitAnyOf ==
    /\ RunnerIdle
    /\ ConcIdle
    /\ mpc = "new"
    /\ vals \in UNION {[1..n -> Values] : n \in 0..MaxVals}
    /\ cand = 0
    /\ wrapped = <<>>
    /\ mres = <<>>
    /\ mdesc = <<>>

NextAnyOf ==
    \/ CallAnyOf
    \/ CallMatches
    \/ CallDescription

SpecAnyOf == InitAnyOf /\ [][NextAnyOf]_vars

----------------------------------------------------------------------------
\* Concurrent callers of one reporter: goroutines the test started each call
\* ReportError on the reporter of the same TestInfo. One call is four steps:
\* mutex.Lock() returns, append reads the slice, the appended slice is stored,
\* the deferred mutex.Unlock() runs and the call returns.

Contexts == 1..MaxContexts

\* The one shared test state.
SharedInfo == 1

\* What the i-th call of context g reports; the line number tells calls apart.
ConcLine(g, i) == 100 * g + i
ConcErr == [msg |-> <<"expected 1">>]
ConcRecord(g, i) == ReportRecord(<<"suite_test.go">>, ConcLine(g, i), ConcErr)

\* The parts of the state a step of ReportError leaves alone.
ConcFrame ==
    /\ UNCHANGED <<testSuites, testFilter, pc, suiteIdx, methodIdx, CurrentTest,
                   nextObj, suiteInstance, panicking, panicSite, failures, tFailed,
                   failCalls, calls, hookRuns, appended, fatalCall, lastPanic,
                   anyRecord, tested>>
    /\ UNCHANGED matchVars

\* mutex.Lock() that does not wait for the holder.
ConcLock_NoWait(g) ==
    /\ cpc[g] = "idle"
    /\ completed[g] < MaxCalls
    /\ mutex' = g
    /\ cpc' = [cpc EXCEPT ![g] = "locked"]
    /\ UNCHANGED <<testInfos, local, completed, initialRecords>>
    /\ ConcFrame

\* r.testInfo.mutex.Lock() returns: only while no context holds the mutex.
ConcLock(g) ==
    /\ cpc[g] = "idle"
    /\ completed[g] < MaxCalls
    /\ mutex = 0
    /\ mutex' = g
    /\ cpc' = [cpc EXCEPT ![g] = "locked"]
    /\ UNCHANGED <<testInfos, local, completed, initialRecords>>
    /\ ConcFrame

\* append's argument is evaluated: the context reads the slice.
ConcRead(g) ==
    /\ cpc[g] = "locked"
    /\ local' = [local EXCEPT ![g] = testInfos[SharedInfo].failureRecords]
    /\ cpc' = [cpc EXCEPT ![g] = "read"]
    /\ UNCHANGED <<testInfos, mutex, completed, initialRecords>>
    /\ ConcFrame

\* The slice that append made of what was read is stored in the TestInfo.
ConcWrite(g) ==
    /\ cpc[g] = "read"
    /\ testInfos' = ReportError([testInfos EXCEPT ![SharedInfo].failureRecords = local[g]],
                                SharedInfo, <<"suite_test.go">>,
                                ConcLine(g, completed[g] + 1), ConcErr)
    /\ cpc' = [cpc EXCEPT ![g] = "written"]
    /\ UNCHANGED <<mutex, local, completed, initialRecords>>
    /\ ConcFrame

\* The deferred mutex.Unlock() runs and ReportError returns.
ConcUnlock(g) ==
    /\ cpc[g] = "written"
    /\ mutex' = 0
    /\ cpc' = [cpc EXCEPT ![g] = "idle"]
    /\ local' = [local EXCEPT ![g] = <<>>]
    /\ completed' = [completed EXCEPT ![g] = @ + 1]
    /\ UNCHANGED <<testInfos, initialRecords>>
    /\ ConcFrame

\* The test state has no record yet or one; no context is inside a call.
InitConc ==
    /\ testSuites = <<>>
    /\ testFilter = ""
    /\ pc = "off"
    /\ suiteIdx = 1
    /\ methodIdx = 1
    /\ CurrentTest = SharedInfo
    /\ initialRecords \in {<<>>, <<ReportRecord(<<"suite_test.go">>, 10, ConcErr)>>}
    /\ testInfos = (SharedInfo :> [failureRecords |-> initialRecords])
    /\ nextObj = SharedInfo + 1
    /\ suiteInstance = 0
    /\ panicking = "none"
    /\ panicSite = NoSite
    /\ failures = <<>>
    /\ tFailed = FALSE
    /\ failCalls = 0
    /\ calls = <<>>
    /\ hookRuns = <<>>
    /\ appended = <<>>
    /\ fatalCall = <<>>
    /\ lastPanic = NoPanic
    /\ anyRecord = FALSE
    /\ tested = <<>>
    /\ MatcherIdle
    /\ cpc = [g \in Contexts |-> "idle"]
    /\ mutex = 0
    /\ local = [g \in Contexts |-> <<>>]
    /\ completed = [g \in Contexts |-> 0]

NextConc ==
    \E g \in Contexts :
        \/ ConcLock(g)
        \/ ConcRead(g)
        \/ ConcWrite(g)
        \/ ConcUnlock(g)

SpecConc == InitConc /\ [][NextConc]_vars

----------------------------------------------------------------------------
(* Claims about the runner *)

\* runTest has returned to RunTests (its deferred function has run).
Returned == pc = "returned"

\* The last method invoked so far in the current suite.
LastCall == calls[Len(calls)]

\* The k-th returned failure is the record of the k-th reporter call of the test.
RecordOfCall(rec, call) ==
    /\ rec.FileName = call.fileName
    /\ rec.LineNumber = call.lineNumber
    /\ rec.GeneratedError = call.err.msg

\* The returned failures start with the records of the test's reporter calls, in order.
StartsWithAppended ==
    /\ Len(failures) >= Len(appended)
    /\ \A k \in 1..Len(appended) : RecordOfCall(failures[k], appended[k])

\* C1: when SetUp or the test method panicked and the suite defines TearDown,
\* TearDown has been invoked for that test by the time runTest returns.
C1_TearDownAfterPanic ==
    (Returned /\ lastPanic.at \in {"SetUp", "Body"} /\ MethodExists(CurSuite, "TearDown"))
        => LastCall.name = "TearDown"

\* C2: after a panic in SetUp or the test method with a value that is not the
\* fatal-report abort, runTest returns the records reported before the panic,
\* in order, then exactly one record "panic: <value>"; with no panic it
\* returns the reported records and nothing else.
C2_PanicRecordLast ==
    Returned =>
        /\ (lastPanic.at \in {"SetUp", "Body"} /\ lastPanic.value # "assertThatError")
              => /\ Len(failures) = Len(appended) + 1
                 /\ StartsWithAppended
                 /\ Len(failures[Len(failures)].GeneratedError) = 2
                 /\ failures[Len(failures)].GeneratedError[1] = "panic: "
                 /\ lastPanic.value = "boom"
                       => failures[Len(failures)].GeneratedError[2] = "boom"
        /\ lastPanic = NoPanic
              => /\ Len(failures) = Len(appended)
                 /\ StartsWithAppended

\* C3: the current-test slot holds a test state exactly from runTest's start
\* until its deferred function has run, that state is the one allocated for
\* this test, no other test state is live, and the slot is nil once runTest
\* has returned, on every path.
C3_SlotClearedAfterRunTest ==
    /\ (CurrentTest # 0) <=> (pc \in UserPcs \cup {"deferred"})
    /\ CurrentTest # 0 => (DOMAIN testInfos = {CurrentTest} /\ CurrentTest = nextObj - 2)
    /\ CurrentTest = 0 => testInfos = <<>>
    /\ Returned => CurrentTest = 0

\* A test has returned after a panic in TearDown, with the slot cleared.
C3_Witness ==
    /\ Returned
    /\ lastPanic.at = "TearDown"
    /\ CurrentTest = 0

\* C4: the current test state holds exactly the records reported during this
\* test, and what runTest returns is those records plus at most the one
\* synthesized record: nothing of an earlier test.
C4_NoLeakBetweenTests ==
    /\ CurrentTest # 0 =>
          /\ Len(testInfos[CurrentTest].failureRecords) = Len(appended)
          /\ \A k \in 1..Len(appended) :
                RecordOfCall(testInfos[CurrentTest].failureRecords[k], appended[k])
    /\ Returned =>
          /\ StartsWithAppended
          /\ Len(failures) <= Len(appended) + 1
          /\ Len(failures) = Len(appended) + 1 => lastPanic # NoPanic
          /\ (appended = <<>> /\ lastPanic = NoPanic) => failures = <<>>

\* The second test of a suite returned no failures after the first had failed.
C4_Witness ==
    /\ Returned
    /\ methodIdx > 1
    /\ tFailed
    /\ appended = <<>>
    /\ lastPanic = NoPanic
    /\ failures = <<>>
    /\ ~isSpecialMethod(MethodsOf(CurSuite)[methodIdx - 1])

\* The suite the log `calls` belongs to (0: no suite has started).
LogSuite == IF pc \in {"suite", "done"} THEN suiteIdx - 1 ELSE suiteIdx

\* The log shows a test method that was not followed by the TearDown the
\* suite defines: that test method panicked.
PanickedInLog ==
    /\ LogSuite >= 1
    /\ MethodExists(testSuites[LogSuite], "TearDown")
    /\ \E k \in 1..(Len(calls) - 1) :
          /\ ~isSpecialMethod(calls[k].name)
          /\ calls[k + 1].name # "TearDown"

\* C5 as stated: when RunTests is over, every suite that defines a
\* suite-level hook has had it invoked exactly once.
C5_EverySuiteHooksOnce ==
    pc \in {"done", "panicked"} =>
        \A s \in 1..Len(testSuites) :
            /\ MethodExists(testSuites[s], "SetUpTestSuite") => hookRuns[s].setUp = 1
            /\ MethodExists(testSuites[s], "TearDownTestSuite") => hookRuns[s].tearDown = 1

\* C5 amended: no suite-level hook is invoked more than once or for a suite
\* that does not define it; SetUpTestSuite is the first method invoked for its
\* suite and TearDownTestSuite the last, invoked when the method loop is over;
\* every suite the outer loop has finished, and so every suite once RunTests
\* has returned, has had each hook it defines invoked exactly once.
C5_SuiteHooksOnce ==
    /\ \A s \in 1..Len(testSuites) :
          /\ hookRuns[s].setUp <= (IF MethodExists(testSuites[s], "SetUpTestSuite") THEN 1 ELSE 0)
          /\ hookRuns[s].tearDown <= (IF MethodExists(testSuites[s], "TearDownTestSuite") THEN 1 ELSE 0)
          /\ hookRuns[s].tearDown <= hookRuns[s].setUp
                \/ ~MethodExists(testSuites[s], "SetUpTestSuite")
          /\ (s < suiteIdx \/ pc = "done") =>
                /\ MethodExists(testSuites[s], "SetUpTestSuite") => hookRuns[s].setUp = 1
                /\ MethodExists(testSuites[s], "TearDownTestSuite") => hookRuns[s].tearDown = 1
          /\ s > suiteIdx => hookRuns[s] = [setUp |-> 0, tearDown |-> 0]
    /\ LogSuite >= 1 =>
          /\ (MethodExists(testSuites[LogSuite], "SetUpTestSuite") /\ calls # <<>>)
                => calls[1].name = "SetUpTestSuite"
          /\ \A k \in 1..Len(calls) :
                /\ calls[k].name = "SetUpTestSuite" => k = 1
                /\ calls[k].name = "TearDownTestSuite" =>
                      /\ k = Len(calls)
                      /\ methodIdx > Len(MethodsOf(testSuites[LogSuite]))
                      /\ pc \notin UserPcs \cup {"deferred", "returned", "methods"}

\* RunTests has returned after two suites that define both hooks, the last
\* of which had a test method panic; each hook ran once.
C5_Witness ==
    /\ pc = "done"
    /\ Len(testSuites) = 2
    /\ \A s \in 1..2 :
          /\ {"SetUpTestSuite", "TearDownTestSuite"} \subseteq testSuites[s]
          /\ hookRuns[s] = [setUp |-> 1, tearDown |-> 1]
    /\ PanickedInLog

\* The regexp of the flag, for the patterns of the model, against the name of
\* a test method: the empty pattern matches every name, a method's name
\* matches that method.
FilterMatches(pattern, method) == pattern = "" \/ pattern = method

\* C6: a test method runs (its SetUp, its body, its TearDown) only if its
\* name matches the filter.
C6_FilterSkipsUnmatched ==
    pc \in UserPcs => FilterMatches(testFilter, CurMethod)

\* C10: after a ReportFatalError call the caller is never resumed: the panic
\* is in flight towards runTest's deferred function, the test state is the
\* one before the call plus exactly one record with the call's file name, line
\* number and error text, and that record is in what runTest then returns.
C10_FatalAppendsThenUnwinds ==
    fatalCall # <<>> =>
        LET fc == fatalCall[1]
            at == Len(fc.before) + 1
        IN  /\ pc \in {"deferred", "returned", "methods"}
            /\ lastPanic.value = "assertThatError"
            /\ pc = "deferred" =>
                  /\ panicking = "assertThatError"
                  /\ Len(testInfos[CurrentTest].failureRecords) = at
                  /\ SubSeq(testInfos[CurrentTest].failureRecords, 1, at - 1) = fc.before
                  /\ RecordOfCall(testInfos[CurrentTest].failureRecords[at], fc)
            /\ pc \in {"returned", "methods"} =>
                  /\ Len(failures) >= at
                  /\ SubSeq(failures, 1, at - 1) = fc.before
                  /\ RecordOfCall(failures[at], fc)

\* A ReportFatalError call on a test state that already held a record is
\* unwinding.
C10_Witness ==
    /\ pc = "deferred"
    /\ fatalCall # <<>>
    /\ Len(fatalCall[1].before) = 1
    /\ panicking = "assertThatError"

----------------------------------------------------------------------------
(* Claims about the matcher *)

\* Matches has been called on the constructed matcher.
Matched == mres # <<>>

\* The indices of the wrapped matchers whose result for c is not FALSE.
NonFalse(w, c) == {i \in 1..Len(w) : SubMatches(w[i], c).res # MATCH_FALSE}

Min(S) == CHOOSE x \in S : \A y \in S : x <= y

UpTo(n) == [i \in 1..n |-> i]

UserValue(id) == [kind |-> "matcher", id |-> id, v |-> 0]

ElementMatches(val, c) ==
    IF val.kind = "matcher" THEN UserMatches(val.id, c) ELSE EqualsMatches(Equals(val), c)

\* C8: the result is MATCH_TRUE whenever some element of S matches c, wherever
\* it stands; MATCH_UNDEFINED, with the message of an element that is
\* undefined for c, only when no element matches and some is undefined;
\* MATCH_FALSE otherwise.
C8_SetSemantics ==
    Matched =>
        LET r == mres[1]
            anyTrue == \E i \in 1..Len(vals) : ElementMatches(vals[i], cand).res = MATCH_TRUE
            undef == {i \in 1..Len(vals) : ElementMatches(vals[i], cand).res = MATCH_UNDEFINED}
        IN  /\ anyTrue => r.res = MATCH_TRUE
            /\ (~anyTrue /\ undef # {}) =>
                  /\ r.res = MATCH_UNDEFINED
                  /\ \E i \in undef : r.err = ElementMatches(vals[i], cand).err
            /\ (~anyTrue /\ undef = {}) => r.res = MATCH_FALSE

\* Where the description of the i-th wrapped matcher starts in Description().
RECURSIVE DescOffset(_, _)
DescOffset(w, i) ==
    IF i = 1 THEN 3 ELSE DescOffset(w, i - 1) + Len(SubDescription(w[i - 1])) + 2

\* C9: AnyOf() is constructed without error, is FALSE with an empty message
\* for every candidate and is described as "or()"; every description is
\* "or(", the wrapped matchers' descriptions in list order with ", " between
\* neighbours, then ")".
C9_EmptyAndDescription ==
    /\ vals = <<>> => mpc # "panicked"
    /\ (vals = <<>> /\ Matched) => (mres[1].res = MATCH_FALSE /\ mres[1].err = <<>>)
    /\ (vals = <<>> /\ mdesc # <<>>) => mdesc[1] = <<"o", "r", "(", ")">>
    /\ mdesc # <<>> =>
          LET d == mdesc[1]
              n == Len(wrapped)
          IN  /\ SubSeq(d, 1, 3) = <<"o", "r", "(">>
              /\ d[Len(d)] = ")"
              /\ Len(d) = IF n = 0 THEN 4
                          ELSE DescOffset(wrapped, n) + Len(SubDescription(wrapped[n])) + 1
              /\ \A i \in 1..n :
                    LET from == DescOffset(wrapped, i)
                        sd == SubDescription(wrapped[i])
                    IN  /\ SubSeq(d, from + 1, from + Len(sd)) = sd
                        /\ i < n => SubSeq(d, from + Len(sd) + 1, from + Len(sd) + 2)
                                        = <<",", " ">>

\* AnyOf() has been built, evaluated and described.
C9_Witness ==
    /\ vals = <<>>
    /\ mpc = "built"
    /\ Matched
    /\ mres[1].res = MATCH_FALSE
    /\ mdesc = <<(<<"o", "r", "(", ")">>)>>

----------------------------------------------------------------------------
(* Claims about the runner: reporting *)

\* C11: every ReportError or ReportFatalError call of the running test has
\* its record in the current test state, in call order; the sequence runTest
\* returns starts with these records; and RunTests has called t.Fail for each
\* of them once the test's failures are reported.
C11_ReportedFailuresReachHost ==
    /\ CurrentTest # 0 =>
          /\ Len(testInfos[CurrentTest].failureRecords) >= Len(appended)
          /\ \A k \in 1..Len(appended) :
                RecordOfCall(testInfos[CurrentTest].failureRecords[k], appended[k])
    /\ (Returned \/ pc = "methods") => StartsWithAppended
    /\ (pc = "methods" /\ appended # <<>>) =>
          /\ failCalls >= Len(appended)
          /\ tFailed

\* A test that reported two failures and did not panic has been reported to
\* the host.
C11_Witness ==
    /\ pc = "methods"
    /\ Len(appended) = 2
    /\ appended[1].lineNumber # appended[2].lineNumber
    /\ lastPanic = NoPanic
    /\ failCalls = 2
    /\ tFailed

\* C12: a test whose body makes one ReportFatalError call, with nothing else
\* reported, returns exactly one failure: the record of that call.
C12_FatalIsOneRecord ==
    (Returned /\ lastPanic = [value |-> "assertThatError", at |-> "Body"]
        /\ Len(appended) = 1)
        => /\ Len(failures) = 1
           /\ RecordOfCall(failures[1], appended[1])

----------------------------------------------------------------------------
(* Claims about the runner: the run as a whole *)

ReservedNames == {"SetUpTestSuite", "TearDownTestSuite", "SetUp", "TearDown"}

SuiteHookPcs == {"SetUpTestSuite", "TearDownTestSuite"}

\* The methods of a suite type that are tests, in enumeration order, and
\* those among the first n enumerated methods.
TestMethodsOf(typ) ==
    SelectSeq(AllMethodNames, LAMBDA n : n \in typ /\ n \notin ReservedNames)

TestMethodsAmong(typ, n) ==
    SelectSeq(SubSeq(MethodsOf(typ), 1, n), LAMBDA m : m \notin ReservedNames)

\* C13: no outcome of a test method ends the suite or the run. RunTests is
\* left by a panic only when a suite-level hook panicked; short of that it can
\* always take its next step until it returns; whatever the earlier tests
\* did, runTest has been called for every test method the method loop has
\* passed, for all of them when the suite's TearDownTestSuite runs, and every
\* suite has been gone through, with its TearDownTestSuite, when RunTests
\* returns.
C13_FailuresContained ==
    /\ pc = "panicked" => (lastPanic.at \in SuiteHookPcs /\ LastCall.name = lastPanic.at)
    /\ pc \notin {"done", "panicked"} => ENABLED Next
    /\ pc = "methods" =>
          tested[suiteIdx] = TestMethodsAmong(CurSuite, methodIdx - 1)
    /\ pc = "TearDownTestSuite" => tested[suiteIdx] = TestMethodsOf(CurSuite)
    /\ \A s \in 1..Len(testSuites) :
          (s < suiteIdx \/ pc = "done") =>
              /\ tested[s] = TestMethodsOf(testSuites[s])
              /\ MethodExists(testSuites[s], "TearDownTestSuite") => hookRuns[s].tearDown = 1
    /\ pc = "done" => suiteIdx = Len(testSuites) + 1

\* RunTests has returned after two suites; in the second, Alpha panicked in
\* its body, and TestB and TearDownTestSuite ran all the same.
C13_Witness ==
    /\ pc = "done"
    /\ Len(testSuites) = 2
    /\ tested[1] # <<>>
    /\ tested[2] = <<"Alpha", "TestB">>
    /\ MethodExists(testSuites[2], "TearDown")
    /\ \E k \in 1..(Len(calls) - 1) :
          /\ calls[k].name = "Alpha"
          /\ calls[k + 1].name # "TearDown"
    /\ \E k \in 1..Len(calls) : calls[k].name = "TestB"
    /\ hookRuns[2].tearDown = 1

\* C14: outside the moment between runTest's return and the reporting of its
\* failures, and so when RunTests has returned, the host test is marked
\* failed exactly if some runTest call returned a non-empty sequence; and for
\* the test just reported t.Fail was called once per returned record, not at
\* all for an empty sequence.
C14_FailedIffSomeRecord ==
    /\ pc # "returned" => (tFailed <=> anyRecord)
    /\ pc = "methods" => failCalls = Len(failures)
    /\ (pc = "methods" /\ failures = <<>>) => failCalls = 0

\* A test returned three records (two reported, one for its panic) and Fail
\* was called three times.
C14_Witness ==
    /\ pc = "methods"
    /\ Len(failures) = 3
    /\ failCalls = 3
    /\ tFailed

\* C15: once a suite-level hook has panicked, the panic is in flight out of
\* RunTests and stays so: RunTests takes no further step, no test state is
\* current, the hook is the last method invoked, no later suite has had a hook
\* or a test method run, and after a panic of SetUpTestSuite neither a test
\* method nor the TearDownTestSuite of that suite has run.
C15_SuiteHookPanicPropagates ==
    lastPanic.at \in SuiteHookPcs =>
        /\ pc = "panicked"
        /\ panicking = lastPanic.value
        /\ ~ENABLED Next
        /\ CurrentTest = 0
        /\ LastCall = Call(lastPanic.at, suiteIdx)
        /\ \A s \in 1..Len(testSuites) :
              s > suiteIdx =>
                  (hookRuns[s] = [setUp |-> 0, tearDown |-> 0] /\ tested[s] = <<>>)
        /\ lastPanic.at = "SetUpTestSuite" =>
              /\ tested[suiteIdx] = <<>>
              /\ hookRuns[suiteIdx].tearDown = 0
              /\ Len(calls) = 1

\* The SetUpTestSuite of the first of two suites, each with test methods and
\* a TearDownTestSuite, has panicked.
C15_Witness ==
    /\ pc = "panicked"
    /\ lastPanic.at = "SetUpTestSuite"
    /\ suiteIdx = 1
    /\ Len(testSuites) = 2
    /\ \A s \in 1..2 :
          /\ TestMethodsOf(testSuites[s]) # <<>>
          /\ MethodExists(testSuites[s], "TearDownTestSuite")

\* s is a prefix of t.
IsPrefix(s, t) == Len(s) <= Len(t) /\ s = SubSeq(t, 1, Len(s))

\* C16 as stated: when RunTests is over, by return or by a panic leaving it,
\* every registered suite has had each of its non-reserved methods run as a
\* test exactly once, in enumeration order.
C16_EverySuiteAllTests ==
    pc \in {"done", "panicked"} =>
        \A s \in 1..Len(testSuites) : tested[s] = TestMethodsOf(testSuites[s])

\* C16, amended: the methods run as tests in a suite are always a prefix of the
\* suite's non-reserved methods in enumeration order (so none runs twice, and
\* no reserved name is run as a test); the prefix is the whole sequence for
\* every suite whose method loop has finished, which is every suite once
\* RunTests returns; only methods a suite defines are invoked; and RunTests
\* is left by a panic only out of a suite-level hook the suite defines, never
\* in a suite that defines none.
C16_TestMethodsOnceInOrder ==
    /\ \A s \in 1..Len(testSuites) :
          /\ IsPrefix(tested[s], TestMethodsOf(testSuites[s]))
          /\ \A k \in 1..Len(tested[s]) : tested[s][k] \notin ReservedNames
          /\ (s < suiteIdx \/ pc = "done") => tested[s] = TestMethodsOf(testSuites[s])
          /\ s > suiteIdx => tested[s] = <<>>
    /\ (pc = "TearDownTestSuite" \/ lastPanic.at = "TearDownTestSuite") =>
          tested[suiteIdx] = TestMethodsOf(CurSuite)
    /\ \A k \in 1..Len(calls) : calls[k].name \in testSuites[LogSuite]
    /\ pc = "panicked" =>
          /\ lastPanic.at \in SuiteHookPcs
          /\ MethodExists(CurSuite, lastPanic.at)
    /\ (pc = "done" /\ \A s \in 1..Len(testSuites) :
                          testSuites[s] \cap ReservedNames = {}) =>
          /\ panicking = "none"
          /\ \A s \in 1..Len(testSuites) : hookRuns[s] = [setUp |-> 0, tearDown |-> 0]

\* RunTests has returned from two suites: the first defines all four reserved
\* methods and two test methods, the second defines test methods only.
C16_Witness ==
    /\ pc = "done"
    /\ Len(testSuites) = 2
    /\ ReservedNames \subseteq testSuites[1]
    /\ tested[1] = <<"Alpha", "TestB">>
    /\ testSuites[2] = {"Alpha", "TestB"}
    /\ tested[2] = <<"Alpha", "TestB">>
    /\ Len(calls) = 2

\* The methods runTest invokes for the test method m of a suite of type typ.
Lifecycle(typ, m) ==
    (IF MethodExists(typ, "SetUp") THEN <<"SetUp">> ELSE <<>>)
        \o <<m>>
        \o (IF MethodExists(typ, "TearDown") THEN <<"TearDown">> ELSE <<>>)

\* C17: when runTest returns from a test method none of whose methods
\* panicked, the last invocations in the suite are SetUp (if defined), the
\* test method, TearDown (if defined), in that order, each once, all on the
\* instance created for this test; that instance is none of the registered
\* suite values, no earlier invocation used it (earlier ones used older
\* objects), and the suite-level hooks ran on the registered suite value.
C17_FreshReceiverLifecycle ==
    /\ (Returned /\ lastPanic = NoPanic) =>
          LET life == Lifecycle(CurSuite, CurMethod)
              off  == Len(calls) - Len(life)
              inst == calls[Len(calls)].recv
          IN  /\ off >= 0
              /\ \A k \in 1..Len(life) : calls[off + k] = Call(life[k], inst)
              /\ \A k \in 1..off : calls[k].recv < inst
              /\ inst > Len(testSuites)
              /\ inst = nextObj - 1
    /\ \A k \in 1..Len(calls) :
          IF calls[k].name \in SuiteHookPcs
          THEN calls[k].recv = LogSuite
          ELSE calls[k].recv > Len(testSuites) /\ calls[k].recv < nextObj

\* The second test method of a suite that defines every hook has returned
\* without a panic.
C17_Witness ==
    /\ Returned
    /\ lastPanic = NoPanic
    /\ ReservedNames \subseteq CurSuite
    /\ tested[suiteIdx] = <<"Alpha", "TestB">>
    /\ Len(calls) = 7

\* C18: after a panic of SetUp, runTest is in its deferred function or has
\* returned, never in the test method or in TearDown; SetUp is the last method
\* invoked on the instance of the test and the only one, and the panic is
\* answered by the deferred function, so the test ends with at least the
\* record of the panic unless the value was one recover() reports as nil.
C18_SetUpPanicSkipsBody ==
    (lastPanic.at = "SetUp" /\ pc \notin SuiteHookPcs \cup {"suite", "done", "panicked"}) =>
        /\ pc \in {"deferred", "returned", "methods"}
        /\ LastCall.name = "SetUp"
        /\ \A k \in 1..(Len(calls) - 1) : calls[k].recv # LastCall.recv
        /\ tested[suiteIdx] # <<>>
        /\ (pc = "returned" /\ lastPanic.value # "nil") => failures # <<>>

\* A test whose SetUp panicked has returned, in a suite that defines SetUp and
\* TearDown; the panic made the only record.
C18_Witness ==
    /\ Returned
    /\ lastPanic = [value |-> "boom", at |-> "SetUp"]
    /\ MethodExists(CurSuite, "TearDown")
    /\ CurMethod = "TestB"
    /\ Len(failures) = 1

\* The number of ReportError calls that contexts 1..g have completed.
RECURSIVE CompletedUpTo(_)
CompletedUpTo(g) == IF g = 0 THEN 0 ELSE completed[g] + CompletedUpTo(g - 1)

\* The places of the record r in the failure list of the shared test state.
PlacesOf(r) ==
    {k \in DOMAIN testInfos[SharedInfo].failureRecords :
        testInfos[SharedInfo].failureRecords[k] = r}

\* C19: whatever the interleaving of the contexts, the failure list of the
\* shared test state holds the record of every ReportError call that has
\* returned exactly once, the records of one context's calls in the order of
\* the calls, and the records it had before the calls in front; whenever no
\* call is in progress it holds exactly one record more per call made.
C19_ConcurrentAppendsSafe ==
    LET recs == testInfos[SharedInfo].failureRecords
    IN  /\ \A g \in Contexts : \A i \in 1..completed[g] :
              Cardinality(PlacesOf(ConcRecord(g, i))) = 1
        /\ \A g \in Contexts : \A i, j \in 1..completed[g] :
              i < j => \A k \in PlacesOf(ConcRecord(g, i)),
                          l \in PlacesOf(ConcRecord(g, j)) : k < l
        /\ Len(recs) >= Len(initialRecords)
        /\ SubSeq(recs, 1, Len(initialRecords)) = initialRecords
        /\ (\A g \in Contexts : cpc[g] = "idle") =>
              Len(recs) = Len(initialRecords) + CompletedUpTo(MaxContexts)

\* Two contexts have each made two calls on a test state that had a record,
\* their calls interleaved: the records alternate.
C19_Witness ==
    /\ \A g \in Contexts : cpc[g] = "idle"
    /\ completed[1] = 2
    /\ completed[2] = 2
    /\ Len(initialRecords) = 1
    /\ PlacesOf(ConcRecord(1, 1)) = {2}
    /\ PlacesOf(ConcRecord(2, 1)) = {3}
    /\ PlacesOf(ConcRecord(1, 2)) = {4}
    /\ PlacesOf(ConcRecord(2, 2)) = {5}

\* C20: once AnyOf has been called, for every argument list, a raw nil
\* included, it has returned a matcher (it did not panic) that holds one
\* sub-matcher per argument in argument order: a matcher argument as it is,
\* a raw value v as Equals(v).
C20_ConstructionCompletes ==
    mpc \notin {"off", "new"} =>
        /\ mpc # "panicked"
        /\ Len(wrapped) = Len(vals)
        /\ \A i \in 1..Len(vals) :
              wrapped[i] = IF vals[i].kind = "matcher" THEN vals[i] ELSE Equals(vals[i])

====
